---- MODULE Spec2Model ----
(***************************************************************************)
(* The report-assembly pipeline of the e-commerce analytics dashboard:     *)
(* ReportGenerator (src/src/reports/report_generator.py) and its callers,  *)
(* the two report callbacks of the dashboard (src/src/dashboard/app.py).   *)
(* DataAnalyzer (src/src/analysis/data_analyzer.py), the utility class of  *)
(* the analysis scripts, is modelled next to it with a specification of    *)
(* its own.                                                                *)
(*                                                                         *)
(* Numbers with decimals (order values, delivery times, means) are kept as *)
(* integers in hundredths: 123450 is 1234.50.                              *)
(***************************************************************************)
EXTENDS Integers, Sequences, FiniteSets, TLC

(***************************************************************************)
(* Bounds of the model.                                                    *)
(***************************************************************************)
\* Largest number of records of the dataset handed to the constructor of
\* ReportGenerator, and of lines of the file DataAnalyzer reads.
MaxRecords == 2
\* Number of generate calls made on the one ReportGenerator instance.
MaxCalls == 2
\* The clock runs over the seconds 0..MaxTime.
MaxTime == 1

Calls == 1..MaxCalls

(***************************************************************************)
(* The dataset.                                                            *)
(***************************************************************************)
\* pandas' missing value, as read from an empty CSV cell.
NaN == "NaN"

\* The kinds of order record the datasets are made of: a complete record and
\* a record of another platform whose order id is missing.
RecordKinds ==
    { [Platform |-> "Zepto",  Category |-> "Grocery", OrderValue |-> 123450,
       DeliveryTime |-> 3000, OrderID |-> "ORD1"],
      [Platform |-> "Swiggy", Category |-> "Snacks",  OrderValue |-> 9550,
       DeliveryTime |-> 4525, OrderID |-> NaN] }

Datasets == UNION { [1..n -> RecordKinds] : n \in 0..MaxRecords }

\* The platform names in ascending (lexical) order, the order in which
\* groupby(sort=True) lists its keys.
PlatformsLex == <<"Swiggy", "Zepto">>

LexRank(p) == CHOOSE i \in 1..Len(PlatformsLex) : PlatformsLex[i] = p

RECURSIVE SumOver(_, _, _)
SumOver(d, rows, field) ==
    IF rows = {} THEN 0
    ELSE LET r == CHOOSE x \in rows : TRUE
         IN  d[r][field] + SumOver(d, rows \ {r}, field)

\* numpy's round of s/n to the nearest integer, ties to even.
RoundDiv(s, n) ==
    LET q == s \div n
        r == s % n
    IN  IF 2 * r < n THEN q
        ELSE IF 2 * r > n THEN q + 1
        ELSE IF q % 2 = 0 THEN q ELSE q + 1

\* mean(...).round(2) of a column over the rows of one group, in hundredths.
MeanRounded(d, rows, field) == RoundDiv(SumOver(d, rows, field), Cardinality(rows))

\* The keys of df.groupby('Platform'): the distinct platforms, missing
\* values dropped, in ascending order.
GroupKeys(d) ==
    LET present == { d[i].Platform : i \in DOMAIN d } \ {NaN}
        ranks   == { LexRank(p) : p \in present }
        Nth[n \in 0..Len(PlatformsLex)] ==
            IF n = 0 THEN <<>>
            ELSE IF n \in ranks THEN Append(Nth[n - 1], PlatformsLex[n])
            ELSE Nth[n - 1]
    IN  Nth[Len(PlatformsLex)]

StatColumns == <<"Avg Order Value", "Avg Delivery Time", "Total Orders">>

\* ReportGenerator.__init__: platform_stats. The two means are floats
\* (hundredths), the count of order ids an integer.
PlatformStats(d) ==
    LET keys == GroupKeys(d)
        RowsOf(p) == { i \in DOMAIN d : d[i].Platform = p }
    IN  [ index   |-> keys,
          columns |-> StatColumns,
          data    |-> [ p \in { keys[i] : i \in DOMAIN keys } |->
                        [ mean_value |-> MeanRounded(d, RowsOf(p), "OrderValue"),
                          mean_time  |-> MeanRounded(d, RowsOf(p), "DeliveryTime"),
                          count      |-> Cardinality({ i \in RowsOf(p) :
                                                       d[i].OrderID # NaN }) ] ] ]

\* The category names in ascending order.
CategoriesLex == <<"Grocery", "Snacks">>

\* ReportGenerator.__init__: category_stats, the mean (in hundredths) and
\* the count of the delivery times of each product category, the categories
\* in ascending order. No record kind lacks its delivery time, so the count
\* is the number of records of the category.
CategoryStats(d) ==
    LET present == { d[i].Category : i \in DOMAIN d } \ {NaN}
        Nth[n \in 0..Len(CategoriesLex)] ==
            IF n = 0 THEN <<>>
            ELSE IF CategoriesLex[n] \in present THEN Append(Nth[n - 1], CategoriesLex[n])
            ELSE Nth[n - 1]
        keys == Nth[Len(CategoriesLex)]
        RowsOf(k) == { i \in DOMAIN d : d[i].Category = k }
    IN  [ index   |-> keys,
          columns |-> <<"mean", "count">>,
          data    |-> [ k \in { keys[i] : i \in DOMAIN keys } |->
                        [ mean  |-> MeanRounded(d, RowsOf(k), "DeliveryTime"),
                          count |-> Cardinality(RowsOf(k)) ] ] ]

\* platform_stats.loc[platform]: one row as a Series. The row mixes float64
\* and int64 columns, so the Series is float64: the count becomes a float.
Loc(stats, p) ==
    [ col \in { stats.columns[j] : j \in DOMAIN stats.columns } |->
        IF col = stats.columns[1] THEN stats.data[p].mean_value
        ELSE IF col = stats.columns[2] THEN stats.data[p].mean_time
        ELSE stats.data[p].count * 100 ]

(***************************************************************************)
(* Formatting.                                                             *)
(***************************************************************************)
\* str() of a non-negative float given in hundredths: the shortest decimal
\* text with at least one decimal (120.0, 95.5, 1234.5, 45.25).
PyStrFloat(h) ==
    LET whole == h \div 100
        frac  == h % 100
    IN  ToString(whole) \o "." \o
        ( IF frac % 10 = 0 THEN ToString(frac \div 10)
          ELSE IF frac < 10 THEN "0" \o ToString(frac)
          ELSE ToString(frac) )

\* f"{n:,}" of a non-negative integer.
RECURSIVE FormatThousands(_)
FormatThousands(n) ==
    IF n < 1000 THEN ToString(n)
    ELSE LET low == n % 1000
         IN  FormatThousands(n \div 1000) \o "," \o
             ( IF low < 10 THEN "00" ELSE IF low < 100 THEN "0" ELSE "" ) \o
             ToString(low)

\* len(df.Platform.unique()) and len(df['Product Category'].unique()):
\* unique() keeps the missing value as one of the values.
UniqueCount(d, field) == Cardinality({ d[i][field] : i \in DOMAIN d })

(***************************************************************************)
(* Files and documents.                                                    *)
(***************************************************************************)
ReportsDir == "output/reports"
TempDir == "output/temp"

\* The names of the chart artifacts a caller may supply.
ChartNames == {"delivery_time_dist", "correlation_matrix"}

\* A figures mapping: chart names in insertion order, no name twice.
FigureSets ==
    { f \in UNION { [1..n -> ChartNames] : n \in 0..Cardinality(ChartNames) } :
        \A i, j \in DOMAIN f : i # j => f[i] # f[j] }

\* The slip of one file name for the images of all charts.
TempPathShared(name) == TempDir \o "/" \o "figure" \o ".png"

\* save_figure_as_image: os.path.join('output/temp', f'{name}.png').
TempPath(name) == TempDir \o "/" \o name \o ".png"

\* datetime.now().strftime("%Y%m%d_%H%M%S") of the clock's second t, the
\* clock starting at 2025-01-01 00:00:00.
Timestamp(t) ==
    "20250101_00" \o
    ( IF t \div 60 < 10 THEN "0" ELSE "" ) \o ToString(t \div 60) \o
    ( IF t % 60 < 10 THEN "0" ELSE "" ) \o ToString(t % 60)

Extension(fmt) == IF fmt = "PDF" THEN ".pdf" ELSE ".docx"

ReportFilename(t, fmt) ==
    ReportsDir \o "/ecommerce_analysis_report_" \o Timestamp(t) \o Extension(fmt)

\* A file system directory as a function from path to content.
NoFiles == [ p \in {} |-> 0 ]

WriteFile(files, path, content) ==
    [ p \in DOMAIN files \cup {path} |-> IF p = path THEN content ELSE files[p] ]

\* The picture a chart serializes to: which chart, rendered by which call.
NoImage == [chart |-> "", by |-> 0]

RenderedImage(name, c) == [chart |-> name, by |-> c]

\* One block element of a document.
Block(kind, style, text, rows, path, image) ==
    [kind |-> kind, style |-> style, text |-> text, rows |-> rows,
     path |-> path, image |-> image]

Paragraph(text, style) == Block("Paragraph", style, text, <<>>, "", NoImage)
Spacer == Block("Spacer", "", "", <<>>, "", NoImage)
Table(rows) == Block("Table", "", "", rows, "", NoImage)
Heading(text, level) ==
    Block("Heading", IF level = 0 THEN "Title" ELSE "Heading 1", text, <<>>, "", NoImage)

ReportTitle == "E-commerce Delivery Analytics Report"
AuthorLine == "Created by: Vijeta Thakur"

RECURSIVE Flatten(_)
Flatten(ss) == IF ss = <<>> THEN <<>> ELSE Head(ss) \o Flatten(Tail(ss))

(***************************************************************************)
(* generate_pdf: the story.                                                *)
(***************************************************************************)
\* The slip of a total that is the sum of the per-platform order counts.
PdfOverviewDataSummed(d) ==
    LET stats == PlatformStats(d)
        Sum[n \in 0..Len(stats.index)] ==
            IF n = 0 THEN 0 ELSE Sum[n - 1] + stats.data[stats.index[n]].count
    IN  << <<"Total Orders", FormatThousands(Sum[Len(stats.index)])>>,
           <<"Number of Platforms", ToString(UniqueCount(d, "Platform"))>>,
           <<"Number of Product Categories", ToString(UniqueCount(d, "Category"))>> >>

PdfOverviewData(d) ==
    << <<"Total Orders", FormatThousands(Len(d))>>,
       <<"Number of Platforms", ToString(UniqueCount(d, "Platform"))>>,
       <<"Number of Product Categories", ToString(UniqueCount(d, "Category"))>> >>

\* The slip of a table built from the data rows alone.
PdfPlatformDataNoHeader(stats) ==
    [ r \in DOMAIN stats.index |->
        << stats.index[r] >> \o
        [ j \in DOMAIN stats.columns |->
            PyStrFloat(Loc(stats, stats.index[r])[stats.columns[j]]) ] ]

\* The slip of a table whose rows are put into ascending order of the
\* platform names, whatever the order of the index.
PdfPlatformDataSorted(stats) ==
    LET ranks == { LexRank(stats.index[r]) : r \in DOMAIN stats.index }
        Nth[n \in 0..Len(PlatformsLex)] ==
            IF n = 0 THEN <<>>
            ELSE IF n \in ranks THEN Append(Nth[n - 1], PlatformsLex[n])
            ELSE Nth[n - 1]
        sorted == Nth[Len(PlatformsLex)]
    IN  << <<"Platform">> \o stats.columns >> \o
        [ r \in DOMAIN sorted |->
            << sorted[r] >> \o
            [ j \in DOMAIN stats.columns |->
                PyStrFloat(Loc(stats, sorted[r])[stats.columns[j]]) ] ]

\* platform_data: the header, then one row per platform of the index.
PdfPlatformData(stats) ==
    << <<"Platform">> \o stats.columns >> \o
    [ r \in DOMAIN stats.index |->
        << stats.index[r] >> \o
        [ j \in DOMAIN stats.columns |->
            PyStrFloat(Loc(stats, stats.index[r])[stats.columns[j]]) ] ]

\* The slip of a loop that walks the image paths from the last to the first.
PdfImageBlocksReversed(paths) ==
    Flatten([ i \in DOMAIN paths |->
                << Block("Image", "", "", <<>>, paths[Len(paths) + 1 - i], NoImage),
                   Spacer >> ])

\* Image(img_path, width=450, height=300) is lazy: the file is opened only
\* when the document is built.
PdfImageBlocks(paths) ==
    Flatten([ i \in DOMAIN paths |->
                << Block("Image", "", "", <<>>, paths[i], NoImage), Spacer >> ])

PdfStory(d, stats, paths) ==
    << Paragraph(ReportTitle, "CustomTitle"),
       Paragraph(AuthorLine, "Author"),
       Spacer,
       Paragraph("Dataset Overview", "Heading2"),
       Table(PdfOverviewData(d)),
       Spacer,
       Paragraph("Platform Performance Metrics", "Heading2"),
       Table(PdfPlatformData(stats)),
       Spacer,
       Paragraph("Visualizations", "Heading2") >> \o
    PdfImageBlocks(paths)

(***************************************************************************)
(* generate_word: the document.                                            *)
(***************************************************************************)
WordOverviewRows(d) ==
    << <<"Metric", "Value">>,
       <<"Total Orders", FormatThousands(Len(d))>>,
       <<"Number of Platforms", ToString(UniqueCount(d, "Platform"))>>,
       <<"Number of Product Categories", ToString(UniqueCount(d, "Category"))>> >>

\* add_table(rows=1, cols=4): the cells of the header row.
WordHeaderCells(stats) ==
    [ idx \in 1..4 |->
        IF idx = 1 THEN "Platform"
        ELSE IF idx - 1 \in DOMAIN stats.columns THEN stats.columns[idx - 1]
        ELSE "" ]

\* The slip of rows added in descending order of the index.
WordDataRowsReversed(stats) ==
    [ r \in DOMAIN stats.index |->
        [ idx \in 1..4 |->
            LET p == stats.index[Len(stats.index) + 1 - r]
            IN  IF idx = 1 THEN p
                ELSE IF idx - 1 \in DOMAIN stats.columns
                     THEN PyStrFloat(Loc(stats, p)[stats.columns[idx - 1]])
                     ELSE "" ] ]

\* One add_row() per platform of the index.
WordDataRows(stats) ==
    [ r \in DOMAIN stats.index |->
        [ idx \in 1..4 |->
            IF idx = 1 THEN stats.index[r]
            ELSE IF idx - 1 \in DOMAIN stats.columns
                 THEN PyStrFloat(Loc(stats, stats.index[r])[stats.columns[idx - 1]])
                 ELSE "" ] ]

WordPlatformRows(stats) == << WordHeaderCells(stats) >> \o WordDataRows(stats)

\* add_picture(img_path, width=Inches(6)) reads the image file at once.
WordPictureBlocks(paths, files) ==
    Flatten([ i \in DOMAIN paths |->
                << Block("Picture", "", "", <<>>, paths[i], files[paths[i]]),
                   Paragraph("", "Normal") >> ])

\* The slip of a Word document whose platform section comes before the
\* overview.
WordDocumentReordered(d, stats, paths, files) ==
    << Heading(ReportTitle, 0),
       Paragraph(AuthorLine, "Subtitle"),
       Heading("Platform Performance Metrics", 1),
       Table(WordPlatformRows(stats)),
       Paragraph("", "Normal"),
       Heading("Dataset Overview", 1),
       Table(WordOverviewRows(d)),
       Paragraph("", "Normal"),
       Heading("Visualizations", 1) >> \o
    WordPictureBlocks(paths, files)

WordDocument(d, stats, paths, files) ==
    << Heading(ReportTitle, 0),
       Paragraph(AuthorLine, "Subtitle"),
       Heading("Dataset Overview", 1),
       Table(WordOverviewRows(d)),
       Paragraph("", "Normal"),
       Heading("Platform Performance Metrics", 1),
       Table(WordPlatformRows(stats)),
       Paragraph("", "Normal"),
       Heading("Visualizations", 1) >> \o
    WordPictureBlocks(paths, files)

(***************************************************************************)
(* DataAnalyzer (src/src/analysis/data_analyzer.py): the dataframe.        *)
(***************************************************************************)
\* A cell of a dataframe: a missing value, a text or a number. Delivery
\* times are in hundredths of a minute, standardized values in thousandths.
NaCell == [na |-> TRUE, s |-> "", n |-> 0]

TextCell(s) == [na |-> FALSE, s |-> s, n |-> 0]

NumCell(n) == [na |-> FALSE, s |-> "", n |-> n]

\* The columns calculate_metrics groups and aggregates: a file without one
\* of them does not get through the constructor.
RequiredColumns ==
    << "Platform", "Product Category", "Order Value (INR)",
       "Delivery Time (Minutes)", "Service Rating" >>

\* The header of the CSV file: the Timestamp column is optional.
CsvHeaders == { RequiredColumns, Append(RequiredColumns, "Timestamp") }

ColumnSet(columns) == { columns[j] : j \in DOMAIN columns }

\* The lines of the file: an order of each platform, an order without its
\* platform and an order without its delivery time; the other cells are
\* there. Numbers are written with decimals.
CsvRows(header) ==
    { [ col \in ColumnSet(header) |->
          IF col = "Platform" THEN kind[1]
          ELSE IF col = "Delivery Time (Minutes)" THEN kind[2]
          ELSE IF col = "Product Category" THEN TextCell("Grocery")
          ELSE IF col = "Order Value (INR)" THEN NumCell(10000)
          ELSE IF col = "Service Rating" THEN NumCell(400)
          ELSE TextCell("2025-01-01 10:00:00") ] :
        kind \in { <<TextCell("Zepto"), NumCell(3000)>>,
                   <<TextCell("Swiggy"), NumCell(4500)>>,
                   <<NaCell, NumCell(3000)>>,
                   <<TextCell("Zepto"), NaCell>> } }

\* The dtype read_csv infers for a column: object for a column without rows
\* or with a text, float64 for numbers and for a column of missing values.
InferDtype(rows, col) ==
    IF rows = <<>> THEN "object"
    ELSE IF \E i \in DOMAIN rows : ~rows[i][col].na /\ rows[i][col].s # "" THEN "object"
    ELSE "float64"

\* pd.read_csv(file_path)
ReadCsv(header, rows) ==
    [ columns |-> header,
      dtypes  |-> [ col \in ColumnSet(header) |-> InferDtype(rows, col) ],
      rows    |-> rows ]

\* The files the constructor may be given: a header and up to MaxRecords
\* lines.
CsvFiles ==
    UNION { { ReadCsv(header, rows) :
                rows \in UNION { [1..n -> CsvRows(header)] : n \in 0..MaxRecords } } :
            header \in CsvHeaders }

\* process_data: pd.to_datetime on the Timestamp column, if there is one.
ToDatetime(frame) ==
    IF "Timestamp" \in ColumnSet(frame.columns)
    THEN [frame EXCEPT !.dtypes["Timestamp"] = "datetime64[ns]"]
    ELSE frame

\* df.dropna(): a new frame of the rows without a missing value.
DropNa(frame) ==
    LET Complete(row) == \A col \in ColumnSet(frame.columns) : ~row[col].na
    IN  [frame EXCEPT !.rows = SelectSeq(frame.rows, Complete)]

\* select_dtypes(include=[np.number]).columns
NumericColumns(frame) == { col \in ColumnSet(frame.columns) : frame.dtypes[col] = "float64" }

\* select_dtypes(exclude=[np.number]).columns
CategoricalColumns(frame) == ColumnSet(frame.columns) \ NumericColumns(frame)

\* The rows of a frame that have a value in a column.
Present(frame, col) == { i \in DOMAIN frame.rows : ~frame.rows[i][col].na }

RECURSIVE SumCells(_, _, _)
SumCells(frame, rows, col) ==
    IF rows = {} THEN 0
    ELSE LET r == CHOOSE x \in rows : TRUE
         IN  frame.rows[r][col].n + SumCells(frame, rows \ {r}, col)

\* df[col].mean(): the mean of the values that are there, missing if there
\* is none. The values of the files are such that the mean is a whole
\* number of hundredths.
ColumnMean(frame, col) ==
    LET rows == Present(frame, col)
    IN  IF rows = {} THEN NaCell
        ELSE NumCell(SumCells(frame, rows, col) \div Cardinality(rows))

\* The texts of the files in ascending order, the order in which mode()
\* lists the values that are equally frequent.
TextsLex == <<"2025-01-01 10:00:00", "Grocery", "Swiggy", "Zepto">>

\* df[col].mode()[0]: the most frequent value, the first in ascending order
\* among equals; missing when the column has no value.
ColumnMode(frame, col) ==
    LET Count(t) == Cardinality({ i \in Present(frame, col) : frame.rows[i][col].s = t })
        best == { k \in DOMAIN TextsLex :
                    /\ Count(TextsLex[k]) > 0
                    /\ \A j \in DOMAIN TextsLex : Count(TextsLex[j]) <= Count(TextsLex[k]) }
    IN  IF best = {} THEN NaCell
        ELSE TextCell(TextsLex[CHOOSE k \in best : \A j \in best : k <= j])

\* self.df[numeric_cols].mean(): the fill value of each numeric column.
Means(frame) == [ col \in NumericColumns(frame) |-> ColumnMean(frame, col) ]

\* self.df[categorical_cols].mode().iloc[0]: the fill value of each
\* categorical column.
Modes(frame) == [ col \in CategoricalColumns(frame) |-> ColumnMode(frame, col) ]

\* df[cols] = df[cols].fillna(fills): the missing cells of the columns get
\* the column's fill value, in place.
FillNa(frame, fills) ==
    [frame EXCEPT !.rows =
        [ i \in DOMAIN frame.rows |->
            [ col \in ColumnSet(frame.columns) |->
                IF col \in DOMAIN fills /\ frame.rows[i][col].na
                THEN fills[col]
                ELSE frame.rows[i][col] ] ] ]

\* df[categorical_cols].mode().iloc[0] raises IndexError when mode() has no
\* row: there is no categorical column, or none of them has a value.
ModeIsEmpty(frame) ==
    \A col \in CategoricalColumns(frame) : Present(frame, col) = {}

\* The largest standard deviation, in hundredths, the square root is
\* looked for.
MaxStd == 3000

\* The whole part of the square root of q.
ISqrt(q) == CHOOSE r \in 0..MaxStd : r * r <= q /\ q < (r + 1) * (r + 1)

\* StandardScaler().fit_transform(df[[column]]): (x - mean) / std over the
\* values that are there, std being the population standard deviation, and
\* 0 when the values do not vary; a missing value stays missing. The
\* standard deviation is kept in whole hundredths, the result in thousandths.
Scaled(frame, column, i) ==
    LET rows == Present(frame, column)
        mean == ColumnMean(frame, column).n
        Dev(r) == frame.rows[r][column].n - mean
        SqDev[S \in SUBSET rows] ==
            IF S = {} THEN 0
            ELSE LET r == CHOOSE x \in S : TRUE
                 IN  Dev(r) * Dev(r) + SqDev[S \ {r}]
        std  == ISqrt(SqDev[rows] \div Cardinality(rows))
        d    == Dev(i)
    IN  IF frame.rows[i][column].na THEN NaCell
        ELSE IF std = 0 THEN NumCell(0)
        ELSE IF d >= 0 THEN NumCell((d * 1000) \div std)
        ELSE NumCell(0 - ((0 - d) * 1000) \div std)

\* df[f'{column}_normalized'] = ...: the column is added to the frame, or
\* written over if it is there, in place.
WithNormalized(frame, column) ==
    LET name == column \o "_normalized"
    IN  [ columns |-> IF name \in ColumnSet(frame.columns) THEN frame.columns
                      ELSE Append(frame.columns, name),
          dtypes  |-> [ col \in ColumnSet(frame.columns) \cup {name} |->
                          IF col = name THEN "float64" ELSE frame.dtypes[col] ],
          rows    |-> [ i \in DOMAIN frame.rows |->
                          [ col \in ColumnSet(frame.columns) \cup {name} |->
                              IF col = name THEN Scaled(frame, column, i)
                              ELSE frame.rows[i][col] ] ] ]

(***************************************************************************)
(* The state.                                                              *)
(***************************************************************************)
VARIABLES
    df,              \* ReportGenerator.df: the dataset
    platform_stats,  \* ReportGenerator.platform_stats
    category_stats,  \* ReportGenerator.category_stats
    image_paths,     \* ReportGenerator.image_paths, shared by all calls
    dirs,            \* the output directories that exist
    temp,            \* the files of output/temp: path -> image
    reports,         \* the files of output/reports: path -> document file
    now,             \* the second the wall clock showed when last read
    calls,           \* the generate calls: position and local variables
    analyzer         \* the DataAnalyzer: its attributes and the frames they name

vars == <<df, platform_stats, category_stats, image_paths, dirs, temp, reports, now,
          calls, analyzer>>

\* __init__: for dir_path in [...]: if not os.path.exists: os.makedirs.
EnsureDirs(existing) == existing \cup {ReportsDir, TempDir}

\* A call that has not begun. before and failedAt are history: the listing
\* of the reports directory as the call found it, and the position of the
\* chart whose serialization failed (0: none).
IdleCall ==
    [pc |-> "idle", fmt |-> "", figures |-> <<>>, k |-> 0, filename |-> "",
     story |-> <<>>, ret |-> "", err |-> "", before |-> {}, failedAt |-> 0]

\* The frame objects the attributes of a DataAnalyzer name.
Refs == {1, 2}

\* No DataAnalyzer has been constructed.
NoAnalyzer ==
    [df |-> 0, original_df |-> 0, heap |-> <<>>, file |-> <<>>, op |-> "", err |-> "",
     since |-> {}, undone |-> {}]

\* DataAnalyzer.__init__: df is the frame read from the file, original_df
\* a copy of it, an object of its own; process_data then converts the
\* timestamps of df. platform_metrics and category_metrics are assigned here
\* and by no other method, and no method below reads them. file, op, err,
\* since and undone are history: the file as read, the last method called
\* and its error, the changes made to df since it was loaded or reset, and
\* the changes the last reset found.
Construct(file) ==
    [df |-> 1, original_df |-> 2,
     heap |-> [ r \in Refs |-> IF r = 1 THEN ToDatetime(file) ELSE file ],
     file |-> file, op |-> "__init__", err |-> "",
     since |-> IF ToDatetime(file) # file THEN {"to_datetime"} ELSE {},
     undone |-> {}]

Init ==
    /\ df \in Datasets
    /\ platform_stats = PlatformStats(df)
    /\ category_stats = CategoryStats(df)
    /\ image_paths = <<>>
    /\ \E existing \in SUBSET {ReportsDir, TempDir} : dirs = EnsureDirs(existing)
    /\ temp = NoFiles
    /\ reports = NoFiles
    /\ now = 0
    /\ calls = [c \in Calls |-> IdleCall]
    /\ analyzer = NoAnalyzer

Running(c) == calls[c].pc \in {"save", "assemble", "build"}

\* No generate call is between its first and its last statement.
Quiescent == \A c \in Calls : ~Running(c)

(***************************************************************************)
(* save_current_figures.                                                   *)
(***************************************************************************)
\* The slip of a list that is created once and never emptied.
KeepImagePaths(paths) == paths

\* self.image_paths = []
ResetImagePaths(paths) == <<>>

\* A call whose caller has gone on: its local variables are gone.
EndedCall == [IdleCall EXCEPT !.pc = "ended"]

\* Entering generate_pdf or generate_word: the call is made and
\* save_current_figures resets the list. The callers of the calls that have
\* returned or raised have gone on by now.
Begin(c, f, figs) ==
    /\ calls[c].pc = "idle"
    /\ IF c = 1 THEN TRUE ELSE calls[c - 1].pc # "idle"
    /\ image_paths' = ResetImagePaths(image_paths)
    /\ calls' = [ d \in Calls |->
                    IF d = c
                    THEN [calls[c] EXCEPT !.pc = "save", !.fmt = f, !.figures = figs,
                                          !.before = DOMAIN reports]
                    ELSE IF calls[d].pc \in {"returned", "raised"} THEN EndedCall
                    ELSE calls[d] ]
    /\ UNCHANGED <<analyzer, df, platform_stats, category_stats, dirs, temp, reports, now>>

\* A caller that waits for one call to end before it makes the next.
GenerateCall(c) ==
    /\ Quiescent
    /\ \E f \in {"PDF", "WORD"}, figs \in FigureSets : Begin(c, f, figs)

\* The figures dictionary the two dashboard callbacks build.
DashFigures == <<"delivery_time_dist", "correlation_matrix">>

\* generate_pdf_report / generate_word_report: a button click is served on
\* a thread of its own, whatever the other requests are doing.
DashCallback(c) ==
    \E f \in {"PDF", "WORD"} : Begin(c, f, DashFigures)

\* One turn of the loop: write_image succeeds, the path is appended.
SaveFigure(c) ==
    /\ calls[c].pc = "save"
    /\ calls[c].k < Len(calls[c].figures)
    /\ TempDir \in dirs
    /\ LET name == calls[c].figures[calls[c].k + 1]
       IN  /\ temp' = WriteFile(temp, TempPath(name), RenderedImage(name, c))
           /\ image_paths' = Append(image_paths, TempPath(name))
    /\ calls' = [calls EXCEPT ![c].k = @ + 1]
    /\ UNCHANGED <<analyzer, df, platform_stats, category_stats, dirs, reports, now>>

\* The slip of a loop that catches the error and goes on to the next chart.
AfterRenderErrorSwallowed(cl) == [cl EXCEPT !.k = @ + 1]

\* What a call is left as when write_image raises: the exception leaves
\* save_current_figures and generate_*.
AfterRenderError(cl) == [cl EXCEPT !.pc = "raised", !.err = "RenderingError"]

\* One turn of the loop: write_image raises.
SaveFigureFails(c) ==
    /\ calls[c].pc = "save"
    /\ calls[c].k < Len(calls[c].figures)
    /\ TempDir \in dirs
    /\ calls' = [calls EXCEPT ![c] =
                    [AfterRenderError(calls[c]) EXCEPT !.failedAt = calls[c].k + 1]]
    /\ UNCHANGED <<analyzer, df, platform_stats, category_stats, image_paths, dirs, temp, reports, now>>

(***************************************************************************)
(* generate_pdf / generate_word after the figures are saved.               *)
(***************************************************************************)
\* The slip of a generate that starts on its document while charts are
\* still to be serialized.
StampEarly(c) ==
    /\ calls[c].pc = "save"
    /\ \E t \in now..MaxTime :
          /\ now' = t
          /\ calls' = [calls EXCEPT ![c].pc = "assemble",
                                    ![c].filename = ReportFilename(t, calls[c].fmt)]
    /\ UNCHANGED <<analyzer, df, platform_stats, category_stats, image_paths, dirs, temp, reports>>

\* timestamp = datetime.now()...; filename = f'output/reports/...'. The clock
\* is read here and nowhere else: it shows a second t not before the last
\* one read.
Stamp(c) ==
    /\ calls[c].pc = "save"
    /\ calls[c].k = Len(calls[c].figures)
    /\ \E t \in now..MaxTime :
          /\ now' = t
          /\ calls' = [calls EXCEPT ![c].pc = "assemble",
                                    ![c].filename = ReportFilename(t, calls[c].fmt)]
    /\ UNCHANGED <<analyzer, df, platform_stats, category_stats, image_paths, dirs, temp, reports>>

\* The slip of an assembly that cleans the dataset in place: the first
\* record is dropped from self.df.
AssembleInPlace(c) ==
    /\ calls[c].pc = "assemble"
    /\ calls[c].fmt = "WORD" =>
           \A i \in DOMAIN image_paths : image_paths[i] \in DOMAIN temp
    /\ df' = IF df = <<>> THEN df ELSE Tail(df)
    /\ calls' = [calls EXCEPT ![c].pc = "build",
                              ![c].story =
                                  IF calls[c].fmt = "PDF"
                                  THEN PdfStory(df, platform_stats, image_paths)
                                  ELSE WordDocument(df, platform_stats, image_paths, temp)]
    /\ UNCHANGED <<analyzer, platform_stats, category_stats, image_paths, dirs, temp, reports, now>>

\* The story (PDF) or the document (Word) is put together, in memory.
Assemble(c) ==
    /\ calls[c].pc = "assemble"
    /\ calls[c].fmt = "WORD" =>
           \A i \in DOMAIN image_paths : image_paths[i] \in DOMAIN temp
    /\ calls' = [calls EXCEPT ![c].pc = "build",
                              ![c].story =
                                  IF calls[c].fmt = "PDF"
                                  THEN PdfStory(df, platform_stats, image_paths)
                                  ELSE WordDocument(df, platform_stats, image_paths, temp)]
    /\ UNCHANGED <<analyzer, df, platform_stats, category_stats, image_paths, dirs, temp, reports, now>>

\* The document as written: the PDF's lazy images are read now.
Rendered(story, files) ==
    [ i \in DOMAIN story |->
        IF story[i].kind = "Image"
        THEN [story[i] EXCEPT !.image = files[story[i].path]]
        ELSE story[i] ]

\* The slip of a generate that hands out the path of a document it never
\* wrote.
SaveDocumentSkipped(files, path, doc) == files

\* doc.build(story) / doc.save(filename): the file at the final path.
SaveDocument(files, path, doc) ==
    WriteFile(files, path, [complete |-> TRUE, doc |-> doc])

\* doc.build / doc.save succeeds; return filename.
Build(c) ==
    /\ calls[c].pc = "build"
    /\ ReportsDir \in dirs
    /\ \A i \in DOMAIN calls[c].story :
           calls[c].story[i].kind = "Image" => calls[c].story[i].path \in DOMAIN temp
    /\ reports' = SaveDocument(reports, calls[c].filename,
                               Rendered(calls[c].story, temp))
    /\ calls' = [calls EXCEPT ![c].pc = "returned", ![c].ret = calls[c].filename,
                              ![c].story = <<>>]
    /\ UNCHANGED <<analyzer, df, platform_stats, category_stats, image_paths, dirs, temp, now>>

Next ==
    \E c \in Calls :
          \/ GenerateCall(c)
          \/ SaveFigure(c)
          \/ SaveFigureFails(c)
          \/ Stamp(c)
          \/ Assemble(c)
          \/ Build(c)

\* One caller, one call at a time.
Spec == Init /\ [][Next]_vars

(***************************************************************************)
(* The dashboard: the callbacks of the two buttons run on the threads of   *)
(* the web server and share report_gen.                                    *)
(***************************************************************************)
NextDash ==
    \E c \in Calls :
          \/ DashCallback(c)
          \/ SaveFigure(c)
          \/ SaveFigureFails(c)
          \/ Stamp(c)
          \/ Assemble(c)
          \/ Build(c)

SpecDash == Init /\ [][NextDash]_vars

(***************************************************************************)
(* The file system around the program: the output directories may be       *)
(* removed between two calls, and a write may fail.                        *)
(***************************************************************************)
\* The slip of an error that is caught and passed over: the call goes on to
\* return the path.
AfterMissingDirSwallowed(cl) == [cl EXCEPT !.pc = "returned", !.ret = cl.filename]

\* What a call is left as when a write finds its directory missing: the
\* exception leaves generate_*.

AfterMissingDir(cl) == [cl EXCEPT !.pc = "raised", !.err = "FileNotFoundError"]

\* Somebody removes an output directory, with the files in it.
RemoveDir(d) ==
    /\ Quiescent
    /\ d \in dirs
    /\ dirs' = dirs \ {d}
    /\ temp' = IF d = TempDir THEN NoFiles ELSE temp
    /\ reports' = IF d = ReportsDir THEN NoFiles ELSE reports
    /\ UNCHANGED <<analyzer, df, platform_stats, category_stats, image_paths, now, calls>>

\* write_image into a directory that is not there.
SaveFigureNoDir(c) ==
    /\ calls[c].pc = "save"
    /\ calls[c].k < Len(calls[c].figures)
    /\ TempDir \notin dirs
    /\ calls' = [calls EXCEPT ![c] = AfterMissingDir(@)]
    /\ UNCHANGED <<analyzer, df, platform_stats, category_stats, image_paths, dirs, temp, reports, now>>

\* doc.build / doc.save into a directory that is not there.
BuildNoDir(c) ==
    /\ calls[c].pc = "build"
    /\ ReportsDir \notin dirs
    /\ calls' = [calls EXCEPT ![c] = AfterMissingDir(@)]
    /\ UNCHANGED <<analyzer, df, platform_stats, category_stats, image_paths, dirs, temp, reports, now>>

\* doc.build / doc.save opens the file at the final path and fails while
\* writing: what was written stays.
BuildFails(c) ==
    /\ calls[c].pc = "build"
    /\ ReportsDir \in dirs
    /\ reports' = WriteFile(reports, calls[c].filename,
                            [complete |-> FALSE, doc |-> <<>>])
    /\ calls' = [calls EXCEPT ![c].pc = "raised", ![c].err = "IOError"]
    /\ UNCHANGED <<analyzer, df, platform_stats, category_stats, image_paths, dirs, temp, now>>

NextFs ==
    \/ Next
    \/ \E d \in {ReportsDir, TempDir} : RemoveDir(d)
    \/ \E c \in Calls :
          \/ SaveFigureNoDir(c)
          \/ BuildNoDir(c)
          \/ BuildFails(c)

SpecFs == Init /\ [][NextFs]_vars

(***************************************************************************)
(* DataAnalyzer: the methods that change df, called in any order.          *)
(***************************************************************************)
\* The frame self.df names.
DfFrame(a) == a.heap[a.df]

\* The frame self.original_df names.
OriginalFrame(a) == a.heap[a.original_df]

RGVars == <<df, platform_stats, category_stats, image_paths, dirs, temp, reports, now, calls>>

\* The result of a method: df names the object r, which holds frame; the
\* other object is as it was, unless r is that object.
Assigned(a, r, frame, method, error, tag) ==
    [a EXCEPT !.df = r,
              !.heap = [a.heap EXCEPT ![r] = frame],
              !.op = method,
              !.err = error,
              !.since = IF frame # DfFrame(a) THEN a.since \cup {tag} ELSE a.since]

\* A frame object made by dropna() or copy(): an object of its own, not the
\* one original_df names.
NewObject(a) == CHOOSE r \in Refs : r # a.original_df

\* clean_data(drop_na=True): df names the new frame dropna() returns.
AfterDropNa(a) == Assigned(a, NewObject(a), DropNa(DfFrame(a)), "clean_data", "", "dropna")

\* clean_data(drop_na=False): the numeric columns are filled with their
\* means in the frame df names; then the modes are taken, which fails on a
\* frame without categorical values, and the categorical columns are filled.
AfterFillNa(a) ==
    LET numeric == FillNa(DfFrame(a), Means(DfFrame(a)))
    IN  IF ModeIsEmpty(numeric)
        THEN Assigned(a, a.df, numeric, "clean_data", "IndexError", "fillna")
        ELSE Assigned(a, a.df, FillNa(numeric, Modes(numeric)), "clean_data", "", "fillna")

CleanData(drop_na) ==
    /\ analyzer.op # ""
    /\ analyzer' = IF drop_na THEN AfterDropNa(analyzer) ELSE AfterFillNa(analyzer)
    /\ UNCHANGED RGVars

\* The columns normalize_column is called with: a numeric one, a
\* categorical one, and one that only some files have.
NormalizeArgs == {"Delivery Time (Minutes)", "Platform", "Timestamp"}

\* normalize_column(column): a numeric column gets its standardized twin in
\* the frame df names (StandardScaler raises on a frame without rows); for
\* any other column a message is printed.
AfterNormalize(a, column) ==
    IF column \in NumericColumns(DfFrame(a))
    THEN IF DfFrame(a).rows = <<>>
         THEN Assigned(a, a.df, DfFrame(a), "normalize_column", "ValueError", "normalize")
         ELSE Assigned(a, a.df, WithNormalized(DfFrame(a), column),
                       "normalize_column", "", "normalize")
    ELSE Assigned(a, a.df, DfFrame(a), "normalize_column", "", "normalize")

NormalizeColumn(column) ==
    /\ analyzer.op # ""
    /\ analyzer' = AfterNormalize(analyzer, column)
    /\ UNCHANGED RGVars

\* The slip of a reset without copy(): df names the object original_df
\* names.
ResetObjectShared(a) == a.original_df

\* self.original_df.copy(): the object df names after the reset.
ResetObject(a) == NewObject(a)

\* reset_data: self.df = self.original_df.copy()
AfterReset(a) ==
    [ Assigned(a, ResetObject(a), OriginalFrame(a), "reset_data", "", "reset")
        EXCEPT !.since = {}, !.undone = a.since ]

ResetData ==
    /\ analyzer.op # ""
    /\ analyzer' = AfterReset(analyzer)
    /\ UNCHANGED RGVars

\* A script that constructs a DataAnalyzer on a file; no report is made.
InitAnalyzer ==
    /\ df = <<>>
    /\ platform_stats = PlatformStats(df)
    /\ category_stats = CategoryStats(df)
    /\ image_paths = <<>>
    /\ dirs = {}
    /\ temp = NoFiles
    /\ reports = NoFiles
    /\ now = 0
    /\ calls = [c \in Calls |-> IdleCall]
    /\ \E file \in CsvFiles : analyzer = Construct(file)

NextAnalyzer ==
    \/ \E drop_na \in BOOLEAN : CleanData(drop_na)
    \/ \E column \in NormalizeArgs : NormalizeColumn(column)
    \/ ResetData

SpecAnalyzer == InitAnalyzer /\ [][NextAnalyzer]_vars

(***************************************************************************)
(* Reading a document back.                                                *)
(***************************************************************************)
IsSectionBlock(b) ==
    \/ b.kind = "Heading"
    \/ b.kind = "Paragraph" /\ b.style \in {"CustomTitle", "Author", "Heading2", "Subtitle"}

IsTableBlock(b) == b.kind = "Table"

IsImageBlock(b) == b.kind \in {"Image", "Picture"}

Texts(blocks) == [ i \in DOMAIN blocks |-> blocks[i].text ]

\* The title, the attribution line and the headings of a document, in order.
Sections(doc) == Texts(SelectSeq(doc, IsSectionBlock))

OverviewTable(doc) == SelectSeq(doc, IsTableBlock)[1].rows

PlatformTable(doc) == SelectSeq(doc, IsTableBlock)[2].rows

ImageBlocks(doc) == SelectSeq(doc, IsImageBlock)

PdfReports == { ReportFilename(t, "PDF") : t \in 0..MaxTime } \cap DOMAIN reports

WordReports == { ReportFilename(t, "WORD") : t \in 0..MaxTime } \cap DOMAIN reports

\* The platforms of the dataset, counted on the dataset itself.
PlatformsOf(d) == { d[i].Platform : i \in DOMAIN d } \ {NaN}

(***************************************************************************)
(* The claims.                                                             *)
(***************************************************************************)
\* C1: a call in which the serialization of a chart failed, whatever the
\* chart's position, has ended in a RenderingError without a returned path,
\* and the reports directory lists exactly the files it listed before the call.
C1_RenderFailureLeavesNoFile ==
    \A c \in Calls :
        calls[c].failedAt # 0 =>
            /\ calls[c].pc = "raised"
            /\ calls[c].err = "RenderingError"
            /\ calls[c].ret = ""
            /\ DOMAIN reports = calls[c].before

\* C1's case: the second chart of a call failed while an earlier report
\* lies in the reports directory.
C1_Witness ==
    \E c \in Calls :
        /\ calls[c].failedAt = 2
        /\ calls[c].pc = "raised"
        /\ calls[c].before # {}

\* C2: a report that generate returns is stored at a path that no earlier
\* report occupies, so that two calls of one format within the same second
\* leave the first report's file as it was and store the second separately.
C2_NoSilentOverwrite ==
    \A c \in Calls :
        calls[c].pc = "returned" => calls[c].ret \notin calls[c].before

\* C3: a successful call has created exactly one new file in the reports
\* directory, named ecommerce_analysis_report_<YYYYMMDD_HHMMSS> after the
\* second the clock showed, with the extension of the format: the directory
\* holds the files it held before the call and one more.
C3_ExactlyOneNewFile ==
    \A c \in Calls :
        calls[c].pc = "returned" =>
            /\ calls[c].ret =
                   "output/reports/ecommerce_analysis_report_" \o Timestamp(now) \o
                   ( IF calls[c].fmt = "PDF" THEN ".pdf" ELSE ".docx" )
            /\ DOMAIN reports = calls[c].before \cup {calls[c].ret}
            /\ Cardinality(DOMAIN reports) = Cardinality(calls[c].before) + 1

\* C4: a path is returned only by a call that has persisted its document: a
\* complete file lies at the returned path, and no call that has not
\* returned holds a path.
C4_ReturnedPathExists ==
    \A c \in Calls :
        /\ calls[c].pc = "returned" =>
               /\ calls[c].ret = calls[c].filename
               /\ calls[c].ret \in DOMAIN reports
               /\ reports[calls[c].ret].complete
        /\ calls[c].pc # "returned" => calls[c].ret = ""

\* C4's case: a call with two charts has returned its path.
C4_Witness ==
    \E c \in Calls :
        /\ calls[c].pc = "returned"
        /\ Len(calls[c].figures) = 2
        /\ calls[c].ret \in DOMAIN reports

\* C5: no call fails for a missing output directory: whenever a call is
\* about to write a temp image or its document, the directory it writes to
\* exists, also when it was removed after the construction.
C5_DirectoriesEnsuredBeforeWrite ==
    \A c \in Calls :
        /\ calls[c].err # "FileNotFoundError"
        /\ (calls[c].pc = "save" /\ calls[c].k < Len(calls[c].figures)) => TempDir \in dirs
        /\ calls[c].pc = "build" => ReportsDir \in dirs

\* What a call's document must embed: its own charts, in its own order.
OwnPaths(c) == [ i \in DOMAIN calls[c].figures |-> TempPath(calls[c].figures[i]) ]

\* C6: as generate calls do not overlap, the document a call has put
\* together holds the image paths of its own charts, one per chart and in
\* its own order, and its pictures are the ones the call itself rendered,
\* never the list or the images of another call.
C6_NoForeignImages ==
    \A c \in Calls :
        calls[c].pc = "build" =>
            LET imgs == ImageBlocks(calls[c].story)
            IN  /\ [ i \in DOMAIN imgs |-> imgs[i].path ] = OwnPaths(c)
                /\ \A i \in DOMAIN imgs :
                       imgs[i].kind = "Picture" => imgs[i].image.by = c

ExpectedSections ==
    << "E-commerce Delivery Analytics Report", "Created by: Vijeta Thakur",
       "Dataset Overview", "Platform Performance Metrics", "Visualizations" >>

\* C7: every report, PDF or Word, has the sections title, attribution line,
\* Dataset Overview, Platform Performance, Visualizations in this order, and
\* the header of the platform table lists the same columns in the same order
\* in a PDF report and in a Word report of the same dataset.
C7_SameSectionsAndColumns ==
    /\ \A f \in DOMAIN reports : Sections(reports[f].doc) = ExpectedSections
    /\ \A p \in PdfReports, w \in WordReports :
           /\ Sections(reports[p].doc) = Sections(reports[w].doc)
           /\ Head(PlatformTable(reports[p].doc)) = Head(PlatformTable(reports[w].doc))

\* C7's case: a PDF report and a Word report of one dataset lie side by side.
C7_Witness ==
    /\ PdfReports # {}
    /\ WordReports # {}
    /\ platform_stats.index # <<>>

\* C8: for a non-empty statistics table the platform rows of a PDF report
\* and of a Word report are the same rows in the same order, cell by cell.
C8_SamePlatformRows ==
    \A p \in PdfReports, w \in WordReports :
        platform_stats.index # <<>> =>
            LET pdfRows  == Tail(PlatformTable(reports[p].doc))
                wordRows == Tail(PlatformTable(reports[w].doc))
            IN  /\ Len(pdfRows) = Len(wordRows)
                /\ \A r \in DOMAIN pdfRows :
                       /\ Len(pdfRows[r]) = Len(wordRows[r])
                       /\ \A j \in DOMAIN pdfRows[r] : pdfRows[r][j] = wordRows[r][j]

\* C8's case: both reports exist for a dataset of two platforms.
C8_Witness ==
    /\ PdfReports # {}
    /\ WordReports # {}
    /\ Len(platform_stats.index) = 2

\* C9: for a dataset of N platforms (N >= 0) the platform table of every
\* report is one header row followed by N data rows, one per platform, and
\* the overview table is there with its three metrics.
C9_HeaderPlusNRows ==
    \A f \in DOMAIN reports :
        LET rows == PlatformTable(reports[f].doc)
            over == OverviewTable(reports[f].doc)
        IN  /\ Len(rows) = 1 + Cardinality(PlatformsOf(df))
            /\ rows[1][1] = "Platform"
            /\ { rows[r][1] : r \in 2..Len(rows) } = PlatformsOf(df)
            /\ { "Total Orders", "Number of Platforms", "Number of Product Categories" }
                   \subseteq { over[r][1] : r \in DOMAIN over }

\* C9's case: both formats were generated for a dataset without platforms.
C9_Witness ==
    /\ PlatformsOf(df) = {}
    /\ \E p \in PdfReports : Len(PlatformTable(reports[p].doc)) = 1
    /\ \E w \in WordReports : Len(PlatformTable(reports[w].doc)) = 1

\* C10: a call with an empty chart set does not fail, and the document it
\* returns ends with the Visualizations section, which holds no image.
C10_EmptyChartSet ==
    \A c \in Calls :
        calls[c].pc # "idle" /\ calls[c].pc # "ended" /\ calls[c].figures = <<>> =>
            /\ calls[c].pc # "raised"
            /\ calls[c].pc = "returned" =>
                   LET doc == reports[calls[c].ret].doc
                   IN  /\ Sections(doc)[Len(Sections(doc))] = "Visualizations"
                       /\ doc[Len(doc)].text = "Visualizations"
                       /\ ImageBlocks(doc) = <<>>

\* C10's case: a call without charts has returned after an earlier call left
\* its images behind.
C10_Witness ==
    \E c \in Calls :
        /\ calls[c].pc = "returned"
        /\ calls[c].figures = <<>>
        /\ DOMAIN temp # {}

\* A block that sets one image apart from what follows it.
IsDivider(b) == b = Spacer \/ b = Paragraph("", "Normal")

\* C11: the document of a call that has returned holds, after the
\* Visualizations heading, exactly one image per chart of the call, in the
\* order of the input mapping; the i-th image is the file the call wrote for
\* its i-th chart, and a spacer or an empty paragraph follows every image.
C11_OneImagePerChartInOrder ==
    \A c \in Calls :
        calls[c].pc = "returned" =>
            LET doc  == reports[calls[c].ret].doc
                imgs == ImageBlocks(doc)
                figs == calls[c].figures
            IN  /\ Len(imgs) = Len(figs)
                /\ \A i \in DOMAIN imgs :
                       /\ imgs[i].path = TempPath(figs[i])
                       /\ imgs[i].image = RenderedImage(figs[i], c)
                /\ \A j \in DOMAIN doc :
                       IsImageBlock(doc[j]) =>
                           /\ j + 1 \in DOMAIN doc
                           /\ IsDivider(doc[j + 1])
                           /\ \E h \in 1..(j - 1) : doc[h].text = "Visualizations"

\* C11's case: a PDF report and its two images, of a mapping that lists
\* correlation_matrix before delivery_time_dist.
C11_Witness ==
    \E c \in Calls :
        /\ calls[c].pc = "returned"
        /\ calls[c].fmt = "PDF"
        /\ calls[c].figures = <<"correlation_matrix", "delivery_time_dist">>
        /\ Len(ImageBlocks(reports[calls[c].ret].doc)) = 2

\* C12: at every moment, also while a call is running and after a call that
\* failed while writing its document, every file that lies at a report's
\* final path in the reports directory is a completely written document.
C12_NoPartialDocument ==
    \A f \in DOMAIN reports : reports[f].complete

\* The text the fixed precision asks for: a number given in hundredths with
\* its thousands separated and two decimals (123450 is 1,234.50).
FixedTwoDecimals(h) ==
    FormatThousands(h \div 100) \o "." \o
    ( IF h % 100 < 10 THEN "0" ELSE "" ) \o ToString(h % 100)

\* C13: in the platform table of every report the two means are written
\* with two decimals and separated thousands (1234.5 as 1,234.50) and the
\* count of orders is written without decimals (1, never 1.0).
C13_FixedPrecisionCells ==
    \A f \in DOMAIN reports :
        LET rows == PlatformTable(reports[f].doc)
        IN  \A r \in 2..Len(rows) :
                LET p == rows[r][1]
                IN  /\ rows[r][2] = FixedTwoDecimals(platform_stats.data[p].mean_value)
                    /\ rows[r][3] = FixedTwoDecimals(platform_stats.data[p].mean_time)
                    /\ rows[r][4] = ToString(platform_stats.data[p].count)

\* The three key/value rows of the overview, counted on the dataset itself.
OverviewRowsOf(d) ==
    << <<"Total Orders", FormatThousands(Len(d))>>,
       <<"Number of Platforms",
         ToString(Cardinality({ d[i].Platform : i \in DOMAIN d }))>>,
       <<"Number of Product Categories",
         ToString(Cardinality({ d[i].Category : i \in DOMAIN d }))>> >>

\* The sum of the order counts of the statistics table.
SumOfCounts ==
    LET Sum[n \in 0..Len(platform_stats.index)] ==
            IF n = 0 THEN 0
            ELSE Sum[n - 1] + platform_stats.data[platform_stats.index[n]].count
    IN  Sum[Len(platform_stats.index)]

C15_TempImagesLeftBehind ==
    /\ [](\A c \in Calls :
            calls[c].pc = "returned" =>
                /\ \A i \in DOMAIN calls[c].figures :
                       LET path == "output/temp/" \o calls[c].figures[i] \o ".png"
                       IN  /\ path \in DOMAIN temp
                           /\ temp[path].chart = calls[c].figures[i]
                /\ Cardinality({ p \in DOMAIN temp : temp[p].by = c })
                       = Len(calls[c].figures))
    /\ [][ /\ DOMAIN temp \subseteq DOMAIN temp'
           /\ Cardinality(DOMAIN temp' \ DOMAIN temp) <= 1
           /\ \A p \in DOMAIN temp :
                  temp'[p] # temp[p] => temp'[p].chart = temp[p].chart ]_vars

\* C15's case: the second call has returned, and an image the first call
\* wrote lies next to the image the second call wrote.
C15_Witness ==
    /\ calls[2].pc = "returned"
    /\ \E p \in DOMAIN temp : temp[p].by = 1
    /\ \E p \in DOMAIN temp : temp[p].by = 2

\* C16: a call in which a step failed (a chart's serialization, a write
\* into a missing output directory, the writing of the document) has ended
\* in an error and holds no returned path; the step that fails is the last
\* step of the call: it is not skipped, the call does not go on after it and
\* does not try it again.
C16_ErrorsSurfacedOnce ==
    /\ [](\A c \in Calls :
            (calls[c].err # "" \/ calls[c].failedAt # 0) =>
                /\ calls[c].pc = "raised"
                /\ calls[c].err # ""
                /\ calls[c].ret = "")
    /\ [][ \A c \in Calls :
             /\ ( /\ calls[c].pc = "save"
                  /\ calls[c].k < Len(calls[c].figures)
                  /\ TempDir \notin dirs
                  /\ calls'[c] # calls[c] ) => calls'[c].pc = "raised"
             /\ ( /\ calls[c].pc = "build"
                  /\ ReportsDir \notin dirs
                  /\ calls'[c] # calls[c] ) => calls'[c].pc = "raised"
             /\ ( /\ calls[c].pc = "build"
                  /\ calls'[c].pc # "build"
                  /\ calls[c].filename \in DOMAIN reports'
                  /\ ~reports'[calls[c].filename].complete ) => calls'[c].pc = "raised"
             /\ ( calls[c].pc # "raised" /\ calls'[c].pc = "raised" ) =>
                    /\ calls'[c].k = calls[c].k
                    /\ image_paths' = image_paths
                    /\ temp' = temp
             /\ calls[c].pc = "raised" => calls'[c] \in {calls[c], EndedCall} ]_vars

\* C16's case: a call that serialized its two charts has failed at the
\* writing of its document, the reports directory being gone.
C16_Witness ==
    \E c \in Calls :
        /\ calls[c].pc = "raised"
        /\ calls[c].err = "FileNotFoundError"
        /\ calls[c].k = 2
        /\ calls[c].filename # ""

\* C17: while a chart of a call is still to be serialized the call has no
\* file name, no block of its document and has written no report; a call
\* that is putting its document together, is writing it or has returned has
\* serialized all its charts; and the charts are serialized one per step, in
\* the order of the input mapping.
C17_SerializeBeforeAssembly ==
    /\ [](\A c \in Calls :
            /\ (Running(c) /\ calls[c].k < Len(calls[c].figures)) =>
                   /\ calls[c].pc = "save"
                   /\ calls[c].filename = ""
                   /\ calls[c].story = <<>>
                   /\ DOMAIN reports = calls[c].before
            /\ calls[c].pc \in {"assemble", "build", "returned"} =>
                   /\ calls[c].k = Len(calls[c].figures)
                   /\ \A i \in DOMAIN calls[c].figures :
                          /\ TempPath(calls[c].figures[i]) \in DOMAIN temp
                          /\ temp[TempPath(calls[c].figures[i])].by = c)
    /\ [][ \A c \in Calls :
             (calls[c].pc = "save" /\ calls'[c].pc = "save") =>
                 /\ reports' = reports
                 /\ calls'[c].story = <<>>
                 /\ calls'[c].k \in {calls[c].k, calls[c].k + 1}
                 /\ calls'[c].k = calls[c].k + 1 =>
                        LET name == calls[c].figures[calls[c].k + 1]
                        IN  /\ temp' = WriteFile(temp, TempPath(name), RenderedImage(name, c))
                            /\ image_paths' = Append(image_paths, TempPath(name)) ]_vars

\* C17's case: a call with two charts holds its document, put together
\* after the second chart was serialized, and has not yet written it.
C17_Witness ==
    \E c \in Calls :
        /\ calls[c].pc = "build"
        /\ Len(calls[c].figures) = 2
        /\ calls[c].k = 2
        /\ calls[c].story # <<>>
        /\ calls[c].filename \notin DOMAIN reports

\* The orders in which the platforms of a statistics table can be listed.
IndexOrders(stats) ==
    { idx \in [DOMAIN stats.index -> { stats.index[r] : r \in DOMAIN stats.index }] :
        \A i, j \in DOMAIN idx : i # j => idx[i] # idx[j] }

\* The platform names of the data rows of a platform table, in order.
RowPlatforms(rows) == [ r \in 1..(Len(rows) - 1) |-> rows[r + 1][1] ]

\* C18: the data rows of the platform table of the document a call has
\* returned list the platforms in the order of the index of platform_stats;
\* and whatever the order of the index of the table a call assembles its
\* document from, both generators emit the rows in that order: the table
\* listing Zepto before Swiggy gives the rows Zepto, Swiggy.
C18_RowsInIndexOrder ==
    \A c \in Calls :
        /\ calls[c].pc = "returned" =>
               RowPlatforms(PlatformTable(reports[calls[c].ret].doc)) = platform_stats.index
        /\ calls[c].pc = "assemble" =>
               \A idx \in IndexOrders(platform_stats) :
                   LET stats == [platform_stats EXCEPT !.index = idx]
                   IN  /\ RowPlatforms(PdfPlatformData(stats)) = idx
                       /\ RowPlatforms(WordPlatformRows(stats)) = idx

\* C18's case: a call has returned the second of two reports, one of each
\* format, on a dataset whose first record is Zepto's and whose second is
\* Swiggy's; the index lists both platforms.
C18_Witness ==
    /\ Len(df) >= 2
    /\ df[1].Platform = "Zepto"
    /\ df[2].Platform = "Swiggy"
    /\ PdfReports # {}
    /\ WordReports # {}
    /\ <<"Zepto", "Swiggy">> \in IndexOrders(platform_stats)
    /\ \E c \in Calls : calls[c].pc = "returned"

\* The paths of the image blocks of a document, in order.
ImagePathsOf(doc) == [ i \in DOMAIN ImageBlocks(doc) |-> ImageBlocks(doc)[i].path ]

\* C19: with calls made one after another, image_paths holds at every step
\* of a call the paths of the charts this call has serialized so far and
\* nothing else, whatever an earlier call left in it, and the document the
\* call puts together and writes embeds the images of its own chart set only.
C19_NoPathCarriedOver ==
    \A c \in Calls :
        /\ calls[c].pc = "save" =>
               image_paths = SubSeq(OwnPaths(c), 1, calls[c].k)
        /\ calls[c].pc \in {"assemble", "build"} => image_paths = OwnPaths(c)
        /\ calls[c].pc = "build" => ImagePathsOf(calls[c].story) = OwnPaths(c)
        /\ calls[c].pc = "returned" =>
               /\ ImagePathsOf(reports[calls[c].ret].doc) = OwnPaths(c)
               /\ \A i \in DOMAIN OwnPaths(c) :
                      ImageBlocks(reports[calls[c].ret].doc)[i].image.by = c

\* C19's case: the second call has returned the only report, of its one
\* chart, after the first call serialized another chart and failed before
\* writing a report.
C19_Witness ==
    /\ calls[2].pc = "returned"
    /\ calls[2].figures = <<"correlation_matrix">>
    /\ calls[2].before = {}
    /\ TempPath("delivery_time_dist") \in DOMAIN temp
    /\ temp[TempPath("delivery_time_dist")].by = 1
    /\ Len(ImageBlocks(reports[calls[2].ret].doc)) = 1

\* C20: no step of a generate call changes df, platform_stats or
\* category_stats, which stay what the constructor computed from the
\* dataset; among the attributes of the instance a step changes image_paths
\* at most; and the reports of one format that lie in the reports directory,
\* written by different calls, show the same overview table and the same
\* platform table.
C20_StatisticsReadOnly ==
    /\ [][ /\ df' = df
           /\ platform_stats' = platform_stats
           /\ category_stats' = category_stats ]_vars
    /\ []( /\ platform_stats = PlatformStats(df)
           /\ category_stats = CategoryStats(df)
           /\ \A f, g \in DOMAIN reports :
                  ( {f, g} \subseteq PdfReports \/ {f, g} \subseteq WordReports ) =>
                      /\ OverviewTable(reports[f].doc) = OverviewTable(reports[g].doc)
                      /\ PlatformTable(reports[f].doc) = PlatformTable(reports[g].doc)
           /\ \A p \in PdfReports, w \in WordReports :
                  OverviewTable(reports[p].doc) = Tail(OverviewTable(reports[w].doc)) )

\* C20's case: two calls have each written a PDF report of a dataset with
\* records, in different seconds.
C20_Witness ==
    /\ Cardinality(PdfReports) = 2
    /\ Len(df) >= 1
    /\ calls[2].pc = "returned"

\* C21: after reset_data, whatever clean_data and normalize_column calls
\* went before, df is the data as read from the file at construction, held
\* in an object of its own; the frame original_df names is the data as read
\* from the file at all times, no method changing it; and a reset_data that
\* follows a reset_data leaves df as it is.
C21_ResetRestoresOriginal ==
    /\ []( /\ OriginalFrame(analyzer) = analyzer.file
           /\ analyzer.op = "reset_data" =>
                  /\ DfFrame(analyzer) = analyzer.file
                  /\ analyzer.df # analyzer.original_df
                  /\ analyzer.err = "" )
    /\ [][ /\ analyzer'.file = analyzer.file
           /\ analyzer'.original_df = analyzer.original_df
           /\ OriginalFrame(analyzer') = OriginalFrame(analyzer)
           /\ (analyzer.op = "reset_data" /\ analyzer'.op = "reset_data") =>
                  DfFrame(analyzer') = DfFrame(analyzer) ]_vars

\* C21's case: a reset has undone a conversion of timestamps, a dropna that
\* removed a line and a normalization, on a file of two lines.
C21_Witness ==
    /\ analyzer.op = "reset_data"
    /\ analyzer.undone = {"to_datetime", "dropna", "normalize"}
    /\ Len(analyzer.file.rows) = 2
    /\ DfFrame(analyzer) = analyzer.file

====
